---- MODULE Spec2Model ----
(***************************************************************************)
(* Model of the `query` / `search` commands of crunchy-cli-core             *)
(* (cli/query.rs and cli/search.rs, which differ only in names).           *)
(*                                                                         *)
(* Strings are sequences of one-character strings, so that the character   *)
(* loops of the encoder and the "--<key>" comparison of sort_json are      *)
(* computed as the code computes them.  An Option is a sequence of length  *)
(* 0 (None) or 1 (Some).  A serde_json Map is a sequence of <<key, value>> *)
(* pairs in iteration order.                                               *)
(***************************************************************************)
EXTENDS Integers, Sequences, FiniteSets, TLC

VARIABLES
    argv,       \* std::env::args(): the process argument vector
    self,       \* the parsed Query / Search struct
    pc,         \* position of Execute::execute
    results,    \* `results`: the entities obtained by the resolver
    idx,        \* position of `for result in results`
    outputs,    \* `outputs`: Vec<Output>
    origin,     \* history: origin[i] is the index in results of outputs[i]
    formatted,  \* value of convert_to_formatted_outputs(&self, outputs)
    as_maps,    \* history: the local `as_map` of every printed record
    csvs,       \* history: the local `csv` of every printed record
    stdout,     \* the lines written by println!
    warnings,   \* the messages passed to warn!
    calls,      \* history: the remote calls issued, in order
    ret         \* result of execute

vars == <<argv, self, pc, results, idx, outputs, origin, formatted,
          as_maps, csvs, stdout, warnings, calls, ret>>

(***************************************************************************)
(* Bounds                                                                  *)
(***************************************************************************)
MaxLimit == 2     \* largest value of --limit, and so of the result list
MaxArgs == 3      \* arguments after the program name
MaxStrLen == 3    \* length of a free text value

(***************************************************************************)
(* Strings                                                                 *)
(***************************************************************************)
None == <<>>
Some(v) == <<v>>

RECURSIVE SeqsUpTo(_, _)
SeqsUpTo(S, n) ==
    IF n = 0 THEN {<<>>}
    ELSE LET shorter == SeqsUpTo(S, n - 1)
         IN shorter \cup {Append(s, x) : s \in {t \in shorter : Len(t) = n - 1}, x \in S}

RECURSIVE join(_, _)
\* Vec<String>::join(sep)
join(strs, sep) ==
    IF strs = <<>> THEN <<>>
    ELSE IF Len(strs) = 1 THEN strs[1]
    ELSE strs[1] \o sep \o join(Tail(strs), sep)

RECURSIVE CountChar(_, _)
CountChar(s, c) ==
    IF s = <<>> THEN 0
    ELSE (IF Head(s) = c THEN 1 ELSE 0) + CountChar(Tail(s), c)

DQ == "\""
CR == "\r"
LF == "\n"
BS == "\\"
SEMI == <<";">>

k_id == <<"i", "d">>
k_url == <<"u", "r", "l">>
k_type == <<"t", "y", "p", "e">>
k_title == <<"t", "i", "t", "l", "e">>
k_description == <<"d", "e", "s", "c", "r", "i", "p", "t", "i", "o", "n">>

\* the serialized names of FormattedOutput's fields, in declaration order
FieldKeys == <<k_id, k_url, k_type, k_title, k_description>>
FieldNames == <<"id", "url", "type_", "title", "description">>

series_url_prefix ==
    <<"h", "t", "t", "p", "s", ":", "/", "/", "w", "w", "w", ".", "c", "r", "u", "n",
      "c", "h", "y", "r", "o", "l", "l", ".", "c", "o", "m", "/", "s", "e", "r", "i",
      "e", "s", "/">>
watch_url_prefix ==
    <<"h", "t", "t", "p", "s", ":", "/", "/", "w", "w", "w", ".", "c", "r", "u", "n",
      "c", "h", "y", "r", "o", "l", "l", ".", "c", "o", "m", "/", "w", "a", "t", "c",
      "h", "/">>
type_series == <<"s", "e", "r", "i", "e", "s">>
type_episode == <<"e", "p", "i", "s", "o", "d", "e">>
type_movie == <<"m", "o", "v", "i", "e">>

(***************************************************************************)
(* Catalog entities (crunchyroll_rs::MediaCollection)                      *)
(***************************************************************************)
Entity(variant, id, slug, title, description) ==
    [variant |-> variant, id |-> id, slug_title |-> slug, title |-> title,
     description |-> description]

SeriesG1 ==
    Entity("Series", <<"G", "1">>, <<"m", "y", "-", "s", "h", "o", "w">>,
           <<"M", "y", " ", "S", "h", "o", "w">>,
           <<"A", " ", "t", "a", "l", "e", "\n", "w", "i", "t", "h", " ",
             "l", "i", "n", "e", "s">>)
SeasonS1 == Entity("Season", <<"S", "1">>, <<"s">>, <<"S", "e", "a">>, <<>>)
EpisodeE1 ==
    Entity("Episode", <<"E", "1">>, <<"e", "p">>, <<"E", "p", " ", "\"", "1", "\"">>,
           <<"a", "\r", "\n", "b">>)
ListingL1 == Entity("MovieListing", <<"L", "1">>, <<"l">>, <<"L", "s", "t">>, <<"l">>)
MovieM1 == Entity("Movie", <<"M", "1">>, <<"m", "v">>, <<"M", "v">>, <<"x", ";", "y">>)
MovieM2 == Entity("Movie", <<"M", "2">>, <<"m", "2">>, <<"M", "\\", "2">>, <<>>)

\* what a catalog query or a direct lookup can return
Catalog == {SeriesG1, SeasonS1, EpisodeE1, ListingL1, MovieM1}
\* what MovieListing::movies() can return
MovieLists == {<<>>, <<MovieM2>>, <<MovieM2, MovieM1>>}

(***************************************************************************)
(* Flattener: the arms of `match result`                                   *)
(***************************************************************************)
Output(id, url, type_, title, description) ==
    [id |-> id, url |-> url, type_ |-> type_, title |-> title,
     description |-> description]

series_output(series) ==
    Output(series.id, series_url_prefix \o series.id \o <<"/">> \o series.slug_title,
           type_series, series.title, series.description)

episode_output(episode) ==
    Output(episode.id, watch_url_prefix \o episode.id \o <<"/">> \o episode.slug_title,
           type_episode, episode.title, episode.description)

movie_output(movie) ==
    Output(movie.id, watch_url_prefix \o movie.id \o <<"/">> \o movie.slug_title,
           type_movie, movie.title, movie.description)

\* the arms that push an Output without awaiting
local_output(result) ==
    CASE result.variant = "Series" -> series_output(result)
      [] result.variant = "Episode" -> episode_output(result)
      [] result.variant = "Movie" -> movie_output(result)

season_warning == "Found season, skipping"
listing_warning == "Movie listing queried but no movie found"

(***************************************************************************)
(* Projector                                                               *)
(***************************************************************************)
then_some(b, v) == IF b THEN Some(v) ELSE None

format_output_crossed(query, output) ==
    [id |-> then_some(query.id, output.id),
     url |-> then_some(query.url, output.url),
     type_ |-> then_some(query.type_, output.type_),
     title |-> then_some(query.description, output.title),
     description |-> then_some(query.title, output.description)]

format_output(query, output) ==
    [id |-> then_some(query.id, output.id),
     url |-> then_some(query.url, output.url),
     type_ |-> then_some(query.type_, output.type_),
     title |-> then_some(query.title, output.title),
     description |-> then_some(query.description, output.description)]

convert_to_formatted_outputs(query, outs) ==
    [i \in 1..Len(outs) |-> format_output(query, outs[i])]

(***************************************************************************)
(* serde_json                                                              *)
(***************************************************************************)
MapKeys(m) == [i \in 1..Len(m) |-> m[i][1]]
MapValues(m) == [i \in 1..Len(m) |-> m[i][2]]
MapHas(m, k) == \E i \in 1..Len(m) : m[i][1] = k

\* Map::insert: a new key goes last, an existing key keeps its place
MapInsert(m, k, v) ==
    IF MapHas(m, k)
    THEN [i \in 1..Len(m) |-> IF m[i][1] = k THEN <<k, v>> ELSE m[i]]
    ELSE Append(m, <<k, v>>)

\* Map::remove: the last entry takes the place of the removed one
MapRemove(m, k) ==
    IF ~MapHas(m, k) THEN m
    ELSE LET i == CHOOSE j \in 1..Len(m) : m[j][1] = k
             n == Len(m)
         IN [j \in 1..(n - 1) |-> IF j = i THEN m[n] ELSE m[j]]

RECURSIVE to_value_from(_, _, _)
to_value_from(fo, i, m) ==
    IF i > Len(FieldNames) THEN m
    ELSE LET opt == fo[FieldNames[i]]
         IN to_value_from(fo, i + 1,
                IF opt = None THEN m ELSE MapInsert(m, FieldKeys[i], opt[1]))

\* serde_json::to_value(&FormattedOutput) with skip_serializing_none
to_value(fo) == to_value_from(fo, 1, <<>>)

RECURSIVE json_escape(_)
json_escape(s) ==
    IF s = <<>> THEN <<>>
    ELSE LET c == Head(s)
         IN (CASE c = DQ -> <<BS, DQ>>
               [] c = BS -> <<BS, BS>>
               [] c = LF -> <<BS, "n">>
               [] c = CR -> <<BS, "r">>
               [] OTHER -> <<c>>) \o json_escape(Tail(s))

json_string(s) == <<DQ>> \o json_escape(s) \o <<DQ>>

\* serde_json::to_string(&Map): a compact object in the map's iteration order
json_to_string(m) ==
    <<"{">> \o
    join([i \in 1..Len(m) |-> json_string(m[i][1]) \o <<":">> \o json_string(m[i][2])],
         <<",">>)
    \o <<"}">>

(***************************************************************************)
(* FieldOrderer                                                            *)
(***************************************************************************)
\* the loops exchanged: the object's keys outside, the arguments inside
sort_json_by_key(args, object) ==
    SelectSeq(object, LAMBDA e : \E a \in 1..Len(args) : args[a] = <<"-", "-">> \o e[1])

RECURSIVE sort_json_from(_, _, _)
\* the loops of sort_json: `args` is what is left of std::env::args()
sort_json_from(args, object, sorted) ==
    IF args = <<>> THEN sorted
    ELSE LET arg == Head(args)
             hits == {i \in 1..Len(object) : arg = <<"-", "-">> \o object[i][1]}
         IN IF hits = {} THEN sort_json_from(Tail(args), object, sorted)
            ELSE LET i == CHOOSE j \in hits : \A h \in hits : j <= h
                     key == object[i][1]
                     value == object[i][2]
                 IN sort_json_from(Tail(args), MapRemove(object, key),
                                   MapInsert(sorted, key, value))

sort_json(args, object) == sort_json_from(args, object, <<>>)

(***************************************************************************)
(* Encoder                                                                 *)
(***************************************************************************)
RECURSIVE quote_chars_single(_)
\* `continue` also in the quote branch: a quote is copied once
quote_chars_single(s) ==
    IF s = <<>> THEN <<>>
    ELSE LET char == Head(s)
             rest == quote_chars_single(Tail(s))
         IN IF char = CR \/ char = LF THEN rest
            ELSE <<char>> \o rest

RECURSIVE quote_chars_lf_only(_)
\* only the line feed is skipped
quote_chars_lf_only(s) ==
    IF s = <<>> THEN <<>>
    ELSE LET char == Head(s)
             rest == quote_chars_lf_only(Tail(s))
         IN IF char = DQ THEN <<DQ, char>> \o rest
            ELSE IF char = LF THEN rest
            ELSE <<char>> \o rest

RECURSIVE quote_chars(_)
\* `for char in value_as_string.chars()` of the QuotedCsv arm
quote_chars(s) ==
    IF s = <<>> THEN <<>>
    ELSE LET char == Head(s)
             rest == quote_chars(Tail(s))
         IN IF char = DQ THEN <<DQ, char>> \o rest
            ELSE IF char = CR \/ char = LF THEN rest
            ELSE <<char>> \o rest

quoted_csv_field(value) == <<DQ>> \o quote_chars(value) \o <<DQ>>

\* the local `csv` of the QuotedCsv arm (empty in the other arms)
csv_of(format, as_map) ==
    IF format = "QuotedCsv"
    THEN [i \in 1..Len(as_map) |-> quoted_csv_field(as_map[i][2])]
    ELSE <<>>

\* the text handed to println! by `match self.output_format`
line_of(format, as_map) ==
    CASE format = "Csv" -> join(MapValues(as_map), SEMI)
      [] format = "QuotedCsv" -> join(csv_of(format, as_map), SEMI)
      [] format = "Json" -> json_to_string(as_map)

(***************************************************************************)
(* Inputs                                                                  *)
(***************************************************************************)
OutputFormats == {"Csv", "QuotedCsv", "Json"}
QueryTypes == {"Series", "Episode", "Movie"}

UrlInput == "https://www.crunchyroll.com/series/G1/my-show"
TextInput == "my show"
Inputs == {UrlInput, TextInput}

\* crunchyroll_rs::parse_url(input).is_some()
is_url(input) == input = UrlInput

Query(limit, query_type, sel, format, input) ==
    [limit |-> limit, query_type |-> query_type,
     id |-> "id" \in sel, url |-> "url" \in sel, type_ |-> "type_" \in sel,
     title |-> "title" \in sel, description |-> "description" \in sel,
     output_format |-> format, input |-> input]

Selections == SUBSET {"id", "url", "type_", "title", "description"}

prog == <<"c", "r", "u", "n", "c", "h", "y", "-", "c", "l", "i">>
flag(key) == <<"-", "-">> \o key
\* argument tokens: the five field flags, and tokens that are no field flag
FlagTokens == {flag(FieldKeys[i]) : i \in 1..Len(FieldKeys)}
ArgTokens == FlagTokens \cup {<<"-", "-">>}

\* command lines as the argument parser accepts them
CmdSamples ==
    {[argv |-> <<prog>>, sel |-> {}],
     [argv |-> <<prog, flag(k_title), flag(k_id)>>, sel |-> {"id", "title"}],
     [argv |-> <<prog, flag(k_description), flag(k_type), flag(k_url), <<"-", "-">>,
                 flag(k_type)>>,
      sel |-> {"url", "type_", "description"}]}

(***************************************************************************)
(* Remote calls                                                            *)
(***************************************************************************)
Call(op, arg) == [op |-> op, arg |-> arg, status |-> "pending", reply |-> None]

query_options_movie(query) ==
    [limit |-> query.limit,
     result_type |->
        IF query.query_type = None THEN None
        ELSE CASE query.query_type[1] = "Series" -> Some("Series")
               [] query.query_type[1] = "Episode" -> Some("Episode")
               [] query.query_type[1] = "Movie" -> Some("Movie")]

\* QueryOptions::default().limit(..).result_type(..)
query_options(query) ==
    [limit |-> query.limit,
     result_type |->
        IF query.query_type = None THEN None
        ELSE CASE query.query_type[1] = "Series" -> Some("Series")
               [] query.query_type[1] = "Episode" -> Some("Episode")
               [] query.query_type[1] = "Movie" -> Some("MovieListing")]

Answer(status, reply) ==
    [calls EXCEPT ![Len(calls)].status = status, ![Len(calls)].reply = reply]

Running == [kind |-> "Running", call |-> 0]
Ok == [kind |-> "Ok", call |-> 0]
Err(call) == [kind |-> "Err", call |-> call]
Panic == [kind |-> "Panic", call |-> 0]

(***************************************************************************)
(* Execute::execute                                                        *)
(***************************************************************************)
Fresh ==
    /\ pc = "start"
    /\ results = <<>>
    /\ idx = 1
    /\ outputs = <<>>
    /\ origin = <<>>
    /\ formatted = <<>>
    /\ as_maps = <<>>
    /\ csvs = <<>>
    /\ stdout = <<>>
    /\ warnings = <<>>
    /\ calls = <<>>
    /\ ret = Running

Init ==
    /\ \E cmd \in CmdSamples, limit \in 0..MaxLimit,
          qt \in {None} \cup {Some(t) : t \in QueryTypes},
          format \in OutputFormats, input \in Inputs :
            /\ argv = cmd.argv
            /\ self = Query(limit, qt, cmd.sel, format, input)
    /\ Fresh

Fail ==
    /\ calls' = Answer("err", None)
    /\ pc' = "error"
    /\ ret' = Err(Len(calls))

\* parse_url(&ctx.crunchy, self.input.clone(), true) is awaited
LookupCall ==
    /\ pc = "start"
    /\ is_url(self.input)
    /\ calls' = Append(calls, Call("lookup", self.input))
    /\ pc' = "await_lookup"
    /\ UNCHANGED <<argv, self, results, idx, outputs, origin, formatted, as_maps,
                   csvs, stdout, warnings, ret>>

LookupReturn ==
    /\ pc = "await_lookup"
    /\ \/ /\ Fail
          /\ UNCHANGED results
       \/ \E e \in Catalog :
            /\ calls' = Answer("ok", Some(<<e>>))
            /\ results' = <<e>>
            /\ pc' = "flatten"
            /\ UNCHANGED ret
    /\ UNCHANGED <<argv, self, idx, outputs, origin, formatted, as_maps, csvs,
                   stdout, warnings>>

\* ctx.crunchy.query(&self.input, query_options) is awaited
QueryCall ==
    /\ pc = "start"
    /\ ~is_url(self.input)
    /\ calls' = Append(calls, Call("query", query_options(self)))
    /\ pc' = "await_query"
    /\ UNCHANGED <<argv, self, results, idx, outputs, origin, formatted, as_maps,
                   csvs, stdout, warnings, ret>>

QueryReturn ==
    /\ pc = "await_query"
    /\ \/ /\ Fail
          /\ UNCHANGED results
       \/ \* top_results is None: unwrap() panics
          /\ calls' = Answer("ok", None)
          /\ pc' = "panic"
          /\ ret' = Panic
          /\ UNCHANGED results
       \/ \E items \in SeqsUpTo(Catalog, self.limit) :
            /\ calls' = Answer("ok", Some(items))
            /\ results' = items
            /\ pc' = "flatten"
            /\ UNCHANGED ret
    /\ UNCHANGED <<argv, self, idx, outputs, origin, formatted, as_maps, csvs,
                   stdout, warnings>>

\* a Season is pushed like the other variants
FlattenLocal_season ==
    /\ pc = "flatten"
    /\ idx <= Len(results)
    /\ LET result == results[idx]
       IN /\ result.variant # "MovieListing"
          /\ outputs' = Append(outputs,
                IF result.variant = "Season" THEN movie_output(result)
                ELSE local_output(result))
          /\ origin' = Append(origin, idx)
          /\ UNCHANGED warnings
    /\ idx' = idx + 1
    /\ UNCHANGED <<argv, self, pc, results, formatted, as_maps, csvs, stdout, calls,
                   ret>>

\* the arms of `match result` that do not await
FlattenLocal ==
    /\ pc = "flatten"
    /\ idx <= Len(results)
    /\ LET result == results[idx]
       IN /\ result.variant # "MovieListing"
          /\ IF result.variant = "Season"
             THEN /\ warnings' = Append(warnings, season_warning)
                  /\ UNCHANGED <<outputs, origin>>
             ELSE /\ outputs' = Append(outputs, local_output(result))
                  /\ origin' = Append(origin, idx)
                  /\ UNCHANGED warnings
    /\ idx' = idx + 1
    /\ UNCHANGED <<argv, self, pc, results, formatted, as_maps, csvs, stdout, calls,
                   ret>>

\* movie_listing.movies() is awaited
MoviesCall ==
    /\ pc = "flatten"
    /\ idx <= Len(results)
    /\ results[idx].variant = "MovieListing"
    /\ calls' = Append(calls, Call("movies", idx))
    /\ pc' = "await_movies"
    /\ UNCHANGED <<argv, self, results, idx, outputs, origin, formatted, as_maps,
                   csvs, stdout, warnings, ret>>

\* every Output is printed as soon as it is known
MoviesReturn_flushing ==
    /\ pc = "await_movies"
    /\ \/ /\ Fail
          /\ stdout' = [i \in 1..Len(outputs) |->
                line_of(self.output_format,
                        sort_json(argv, to_value(format_output(self, outputs[i]))))]
          /\ UNCHANGED <<idx, outputs, origin, warnings>>
       \/ \E movies \in MovieLists :
            /\ calls' = Answer("ok", Some(movies))
            /\ IF Len(movies) > 0
               THEN /\ outputs' = Append(outputs, movie_output(movies[1]))
                    /\ origin' = Append(origin, idx)
                    /\ UNCHANGED warnings
               ELSE /\ warnings' = Append(warnings, listing_warning)
                    /\ UNCHANGED <<outputs, origin>>
            /\ idx' = idx + 1
            /\ pc' = "flatten"
            /\ UNCHANGED <<ret, stdout>>
    /\ UNCHANGED <<argv, self, results, formatted, as_maps, csvs>>

\* a failed expansion is tried again
MoviesReturn_retry ==
    /\ pc = "await_movies"
    /\ \/ /\ calls' = Answer("err", None)
          /\ pc' = "flatten"
          /\ UNCHANGED <<idx, outputs, origin, warnings, ret>>
       \/ \E movies \in MovieLists :
            /\ calls' = Answer("ok", Some(movies))
            /\ IF Len(movies) > 0
               THEN /\ outputs' = Append(outputs, movie_output(movies[1]))
                    /\ origin' = Append(origin, idx)
                    /\ UNCHANGED warnings
               ELSE /\ warnings' = Append(warnings, listing_warning)
                    /\ UNCHANGED <<outputs, origin>>
            /\ idx' = idx + 1
            /\ pc' = "flatten"
            /\ UNCHANGED ret
    /\ UNCHANGED <<argv, self, results, formatted, as_maps, csvs, stdout>>

MoviesReturn ==
    /\ pc = "await_movies"
    /\ \/ /\ Fail
          /\ UNCHANGED <<idx, outputs, origin, warnings>>
       \/ \E movies \in MovieLists :
            /\ calls' = Answer("ok", Some(movies))
            /\ IF Len(movies) > 0
               THEN /\ outputs' = Append(outputs, movie_output(movies[1]))
                    /\ origin' = Append(origin, idx)
                    /\ UNCHANGED warnings
               ELSE /\ warnings' = Append(warnings, listing_warning)
                    /\ UNCHANGED <<outputs, origin>>
            /\ idx' = idx + 1
            /\ pc' = "flatten"
            /\ UNCHANGED ret
    /\ UNCHANGED <<argv, self, results, formatted, as_maps, csvs, stdout>>

\* the records are handed on last first
Convert_reversed ==
    /\ pc = "flatten"
    /\ idx > Len(results)
    /\ formatted' = [i \in 1..Len(outputs) |->
            format_output(self, outputs[Len(outputs) + 1 - i])]
    /\ pc' = "print"
    /\ UNCHANGED <<argv, self, results, idx, outputs, origin, as_maps, csvs, stdout,
                   warnings, calls, ret>>

\* the flatten loop is over: convert_to_formatted_outputs(&self, outputs)
Convert ==
    /\ pc = "flatten"
    /\ idx > Len(results)
    /\ formatted' = convert_to_formatted_outputs(self, outputs)
    /\ pc' = "print"
    /\ UNCHANGED <<argv, self, results, idx, outputs, origin, as_maps, csvs, stdout,
                   warnings, calls, ret>>

\* one iteration of `for output in convert_to_formatted_outputs(..)`
PrintStep ==
    /\ pc = "print"
    /\ Len(stdout) < Len(formatted)
    /\ LET output == formatted[Len(stdout) + 1]
           as_json == to_value(output)
           as_map == sort_json(argv, as_json)
       IN /\ as_maps' = Append(as_maps, as_map)
          /\ csvs' = Append(csvs, csv_of(self.output_format, as_map))
          /\ stdout' = Append(stdout, line_of(self.output_format, as_map))
    /\ UNCHANGED <<argv, self, pc, results, idx, outputs, origin, formatted,
                   warnings, calls, ret>>

\* Ok(())
Finish ==
    /\ pc = "print"
    /\ Len(stdout) = Len(formatted)
    /\ pc' = "done"
    /\ ret' = Ok
    /\ UNCHANGED <<argv, self, results, idx, outputs, origin, formatted, as_maps,
                   csvs, stdout, warnings, calls>>

Next ==
    \/ LookupCall
    \/ LookupReturn
    \/ QueryCall
    \/ QueryReturn
    \/ FlattenLocal
    \/ MoviesCall
    \/ MoviesReturn
    \/ Convert
    \/ PrintStep
    \/ Finish

Spec == Init /\ [][Next]_vars

(***************************************************************************)
(* The formatting stages on their own: execute after its flatten loop, for *)
(* every field selection and argument vector, and for free text values.    *)
(***************************************************************************)
DefaultLimit == 10

TextChars == {"a", ";", DQ, CR, LF, BS}

\* a query whose results are all flattened without a remote call
Flattened(items) ==
    /\ pc = "flatten"
    /\ results = items
    /\ idx = Len(items) + 1
    /\ outputs = [i \in 1..Len(items) |-> local_output(items[i])]
    /\ origin = [i \in 1..Len(items) |-> i]
    /\ formatted = <<>>
    /\ as_maps = <<>>
    /\ csvs = <<>>
    /\ stdout = <<>>
    /\ warnings = <<>>
    /\ calls = <<[op |-> "query", arg |-> query_options(self), status |-> "ok",
                  reply |-> Some(items)]>>
    /\ ret = Running

InitFormat ==
    \E format \in OutputFormats :
        \/ \E args \in SeqsUpTo(ArgTokens, MaxArgs), sel \in Selections :
            /\ argv = <<prog>> \o args
            /\ self = Query(DefaultLimit, None, sel, format, TextInput)
            /\ Flattened(<<SeriesG1, EpisodeE1>>)
        \/ \E text \in SeqsUpTo(TextChars, MaxStrLen),
              sel \in {{"description"}, {"id", "description"}} :
            /\ argv = <<prog, flag(k_description), flag(k_id)>>
            /\ self = Query(DefaultLimit, None, sel, format, TextInput)
            /\ Flattened(<<Entity("Series", <<"G", "1">>, <<"s">>, <<"T">>, text)>>)

NextFormat ==
    \/ Convert
    \/ PrintStep
    \/ Finish

SpecFormat == InitFormat /\ [][NextFormat]_vars

(***************************************************************************)
(* Properties                                                              *)
(***************************************************************************)
Failed == \E j \in 1..Len(calls) : calls[j].status = "err"

\* the reply of the movies() call made for entity i
MoviesReply(i) ==
    LET j == CHOOSE c \in 1..Len(calls) : calls[c].op = "movies" /\ calls[c].arg = i
    IN calls[j].reply[1]

Expanded(i) ==
    \E c \in 1..Len(calls) :
        calls[c].op = "movies" /\ calls[c].arg = i /\ calls[c].status = "ok"

\* entity i gives no Output
Skipped(i) ==
    \/ results[i].variant = "Season"
    \/ results[i].variant = "MovieListing" /\ Expanded(i) /\ MoviesReply(i) = <<>>

FlattenDone == pc \in {"print", "done"}

\* C1 as stated: when a remote call fails while entity k is processed, the
\* lines of the records processed before entity k are on stdout, and no more.
C1_PartialOutputOnError ==
    ret.kind = "Err" => Len(stdout) = Len(outputs)

\* C1, amended: when a remote call fails, execute ends with the error of
\* that call, takes no further step, and has printed no line at all, also
\* not for the records flattened before the failing entity.
C1_NoOutputOnError ==
    /\ Failed => ret.kind = "Err"
    /\ ret.kind = "Err" =>
        /\ pc = "error"
        /\ ret.call = Len(calls)
        /\ calls[ret.call].status = "err"
        /\ stdout = <<>>
        /\ ~ENABLED Next

C1_Witness ==
    /\ pc = "error"
    /\ calls[Len(calls)].op = "movies"
    /\ Len(outputs) >= 1
    /\ idx = 2

\* C2: for a non-URL input, a failed query or a reply without top-results
\* container ends execute with an error value and without output.
C2_MissingContainerIsError ==
    (/\ ~is_url(self.input)
     /\ Len(calls) >= 1
     /\ calls[1].op = "query"
     /\ \/ calls[1].status = "err"
        \/ calls[1].status = "ok" /\ calls[1].reply = None)
    => (ret.kind = "Err" /\ stdout = <<>>)

IsQuoted(field) ==
    /\ Len(field) >= 2
    /\ field[1] = DQ
    /\ field[Len(field)] = DQ

\* C3 as stated: a quoted-csv field is the value between two quotes with
\* every quote of the value copied once.
C3_QuoteCopiedOnce ==
    \A i \in 1..Len(csvs) : \A j \in 1..Len(csvs[i]) :
        /\ IsQuoted(csvs[i][j])
        /\ CountChar(csvs[i][j], DQ) = CountChar(as_maps[i][j][2], DQ) + 2

\* C3, amended: a quoted-csv field is wrapped in one leading and one
\* trailing quote and every quote of the value is emitted twice, so the
\* field has twice the quotes of the value plus 2.
C3_QuoteDoubled ==
    \A i \in 1..Len(csvs) :
        /\ self.output_format = "QuotedCsv" => Len(csvs[i]) = Len(as_maps[i])
        /\ \A j \in 1..Len(csvs[i]) :
            /\ IsQuoted(csvs[i][j])
            /\ CountChar(csvs[i][j], DQ) = 2 * CountChar(as_maps[i][j][2], DQ) + 2

C3_Witness ==
    /\ self.output_format = "QuotedCsv"
    /\ Len(csvs) = 1
    /\ \E j \in 1..Len(csvs[1]) :
        /\ CountChar(as_maps[1][j][2], DQ) = 2
        /\ CountChar(csvs[1][j], DQ) = 6

Selected(name) == self[name]
PresentKeys == {FieldKeys[n] : n \in {m \in 1..Len(FieldKeys) : Selected(FieldNames[m])}}
NameOf(key) == FieldNames[CHOOSE n \in 1..Len(FieldKeys) : FieldKeys[n] = key]

\* argv[a] is the first occurrence of the flag of a present field
FirstFlag(a) ==
    /\ \E k \in PresentKeys : argv[a] = flag(k)
    /\ \A b \in 1..(a - 1) : argv[b] # argv[a]

RECURSIVE OrderFrom(_)
\* the keys of the first flags at or after position a, in argv order
OrderFrom(a) ==
    IF a > Len(argv) THEN <<>>
    ELSE (IF FirstFlag(a) THEN <<SubSeq(argv[a], 3, Len(argv[a]))>> ELSE <<>>)
         \o OrderFrom(a + 1)

ExpectedOrder == OrderFrom(1)

\* C4: every emitted line holds exactly the present fields whose flag occurs
\* in argv, each once, in the order of the flags' first occurrences, with the
\* record's values, in each output format and the same for every record.
C4_FieldsInArgvOrder ==
    \A i \in 1..Len(stdout) :
        LET expected == [j \in 1..Len(ExpectedOrder) |->
                            <<ExpectedOrder[j], outputs[i][NameOf(ExpectedOrder[j])]>>]
        IN /\ MapKeys(as_maps[i]) = ExpectedOrder
           /\ as_maps[i] = expected
           /\ stdout[i] =
                CASE self.output_format = "Csv" -> join(MapValues(expected), SEMI)
                  [] self.output_format = "QuotedCsv" ->
                        join([j \in 1..Len(expected) |-> quoted_csv_field(expected[j][2])],
                             SEMI)
                  [] self.output_format = "Json" -> json_to_string(expected)

C4_Witness ==
    /\ Len(stdout) = 2
    /\ argv = <<prog, flag(k_title), flag(k_id), flag(k_title)>>
    /\ self.url
    /\ MapKeys(as_maps[1]) = <<k_title, k_id>>
    /\ MapKeys(as_maps[2]) = <<k_title, k_id>>
    /\ self.output_format = "Json"

\* C5: when every expansion succeeded, there are at most as many Outputs as
\* entities, as many iff no entity is a Season or an empty MovieListing; each
\* other entity gives one Output (a MovieListing that of its first movie)
\* and each Season or empty MovieListing gives one warning.
C5_OneOutputPerFlattenable ==
    FlattenDone =>
        LET skipped == {i \in 1..Len(results) : Skipped(i)}
        IN /\ Len(outputs) <= Len(results)
           /\ Len(outputs) = Len(results) <=> skipped = {}
           /\ Len(outputs) = Len(results) - Cardinality(skipped)
           /\ Len(warnings) = Cardinality(skipped)
           /\ Len(origin) = Len(outputs)
           /\ \A j \in 1..Len(outputs) :
                /\ origin[j] \in 1..Len(results)
                /\ ~Skipped(origin[j])
                /\ outputs[j] =
                     IF results[origin[j]].variant = "MovieListing"
                     THEN movie_output(MoviesReply(origin[j])[1])
                     ELSE local_output(results[origin[j]])

C5_Witness ==
    /\ pc = "done"
    /\ Len(results) = 2
    /\ results[1].variant = "Season"
    /\ results[2].variant = "MovieListing"
    /\ Len(MoviesReply(2)) = 2
    /\ Len(outputs) = 1
    /\ outputs[1].id = MovieM2.id

\* the line of the Output of entity i
EntityLine(i) ==
    LET output == IF results[i].variant = "MovieListing"
                  THEN movie_output(MoviesReply(i)[1])
                  ELSE local_output(results[i])
    IN line_of(self.output_format, sort_json(argv, to_value(format_output(self, output))))

\* C6: a successful invocation has written exactly one line per Output, the
\* i-th line being that of the i-th entity that is not skipped.
C6_OneLinePerOutputInOrder ==
    pc = "done" =>
        /\ ret = Ok
        /\ Len(stdout) = Len(outputs)
        /\ Len(stdout) = Cardinality({i \in 1..Len(results) : ~Skipped(i)})
        /\ \A j \in 1..Len(stdout) :
            /\ ~Skipped(origin[j])
            /\ stdout[j] = EntityLine(origin[j])
            /\ \A k \in 1..(j - 1) : origin[k] < origin[j]

C6_Witness ==
    /\ pc = "done"
    /\ Len(results) = 2
    /\ results[1] # results[2]
    /\ Len(stdout) = 2
    /\ stdout[1] # stdout[2]
    /\ results[2].variant = "MovieListing"

\* C6, empty selection: one empty record per Output
C6_WitnessEmptySelection ==
    /\ pc = "done"
    /\ PresentKeys = {}
    /\ Len(stdout) = 2
    /\ self.output_format = "Csv"
    /\ stdout[1] = <<>>

Toggle(name) == [self EXCEPT ![name] = ~@]

\* C7: a FormattedOutput has an attribute iff its flag is selected, with the
\* Output's value; an unselected attribute is no key of the serialized
\* record nor of the emitted one; toggling one flag changes the presence of
\* that one attribute only.
C7_ProjectionBySelection ==
    /\ FlattenDone => Len(formatted) = Len(outputs)
    /\ \A i \in 1..Len(formatted) : \A n \in 1..Len(FieldNames) :
        LET name == FieldNames[n]
        IN /\ formatted[i][name] # None <=> Selected(name)
           /\ Selected(name) => formatted[i][name] = Some(outputs[i][name])
           /\ MapHas(to_value(formatted[i]), FieldKeys[n]) <=> Selected(name)
           /\ \A m \in 1..Len(FieldNames) :
                ((format_output(Toggle(name), outputs[i])[FieldNames[m]] = None)
                    # (formatted[i][FieldNames[m]] = None)) <=> m = n
    /\ \A i \in 1..Len(as_maps) : \A j \in 1..Len(as_maps[i]) :
        as_maps[i][j][1] \in PresentKeys

C7_Witness ==
    /\ pc = "print"
    /\ Len(stdout) = 1
    /\ self.title /\ ~self.description /\ self.id /\ ~self.url /\ self.type_
    /\ formatted[2].description = None
    /\ formatted[2].title = Some(EpisodeE1.title)
    /\ Len(as_maps[1]) = 3

NotNewline(c) == c # CR /\ c # LF
PlainChar(c) == c # CR /\ c # LF /\ c # DQ

\* C8: a quoted-csv field has no carriage return and no line feed and keeps
\* every other character of the value in order, so the line of a record has
\* no raw CR or LF.
C8_NewlinesStripped ==
    \A i \in 1..Len(csvs) :
        /\ self.output_format = "QuotedCsv" =>
            /\ Len(csvs[i]) = Len(as_maps[i])
            /\ CountChar(stdout[i], CR) = 0
            /\ CountChar(stdout[i], LF) = 0
        /\ \A j \in 1..Len(csvs[i]) :
            LET value == as_maps[i][j][2]
                field == csvs[i][j]
                inner == SubSeq(field, 2, Len(field) - 1)
            IN /\ CountChar(field, CR) = 0
               /\ CountChar(field, LF) = 0
               /\ SelectSeq(inner, PlainChar) = SelectSeq(value, PlainChar)
               /\ Len(inner) = Len(SelectSeq(value, NotNewline)) + CountChar(value, DQ)

C8_Witness ==
    /\ self.output_format = "QuotedCsv"
    /\ Len(stdout) = 1
    /\ \E j \in 1..Len(as_maps[1]) :
        /\ as_maps[1][j][2] = <<CR, "a", LF>>
        /\ csvs[1][j] = <<DQ, "a", DQ>>

CallsOf(op) == {j \in 1..Len(calls) : calls[j].op = op}
Resolved == pc \notin {"start", "await_lookup", "await_query", "error", "panic"}

\* C9: a URL input gives one direct lookup, no query and one entity whatever
\* limit and filter are; any other input gives one query with the limit and
\* the result type series / episode / movie-listing of the filter, and no
\* lookup.
C9_ResolverCalls ==
    /\ is_url(self.input) =>
        /\ CallsOf("query") = {}
        /\ Cardinality(CallsOf("lookup")) <= 1
        /\ pc # "start" => CallsOf("lookup") = {1}
        /\ Resolved => Len(results) = 1
    /\ ~is_url(self.input) =>
        /\ CallsOf("lookup") = {}
        /\ Cardinality(CallsOf("query")) <= 1
        /\ pc # "start" =>
            /\ CallsOf("query") = {1}
            /\ calls[1].arg.limit = self.limit
            /\ self.query_type = None => calls[1].arg.result_type = None
            /\ self.query_type = Some("Series") =>
                    calls[1].arg.result_type = Some("Series")
            /\ self.query_type = Some("Episode") =>
                    calls[1].arg.result_type = Some("Episode")
            /\ self.query_type = Some("Movie") =>
                    calls[1].arg.result_type = Some("MovieListing")

C9_Witness ==
    /\ pc = "done"
    /\ is_url(self.input)
    /\ self.limit = 0
    /\ self.query_type = Some("Movie")
    /\ Len(results) = 1
    /\ Len(stdout) = 1
    /\ Len(calls) = 1

C10_Sequential ==
    /\ \A j \in 1..Len(calls) :
        /\ calls[j].status = "pending" =>
            /\ j = Len(calls)
            /\ pc \in {"await_lookup", "await_query", "await_movies"}
        /\ calls[j].status = "err" =>
            /\ j = Len(calls)
            /\ pc = "error"
            /\ ret = Err(j)
        /\ calls[j].op = "movies" =>
            /\ results[calls[j].arg].variant = "MovieListing"
            /\ calls[j].arg <= idx
            /\ calls[j].status = "pending" =>
                /\ calls[j].arg = idx
                /\ Len(outputs) + Len(warnings) = idx - 1
            /\ \A k \in 1..(j - 1) :
                calls[k].op = "movies" => calls[k].arg < calls[j].arg
        /\ calls[j].op # "movies" => j = 1
    /\ pc \in {"await_lookup", "await_query", "await_movies"} =>
        calls[Len(calls)].status = "pending"

C10_NoCallAfterFailure ==
    /\ Failed => calls' = calls /\ ret' = ret
    /\ Len(calls') >= Len(calls)
    /\ \A j \in 1..Len(calls) :
        /\ calls'[j].op = calls[j].op
        /\ calls'[j].arg = calls[j].arg
        /\ calls[j].status # "pending" => calls'[j] = calls[j]

\* C10: remote calls are issued one at a time in entity order, each
\* MovieListing is expanded at most once and before the next entity is
\* processed, a finished call is never repeated, and after the first failed
\* call no call is issued and execute ends with that call's error.
C10_OneAtATimeNoRetry ==
    []C10_Sequential /\ [][C10_NoCallAfterFailure]_vars

C10_Witness ==
    /\ pc = "error"
    /\ Len(calls) = 3
    /\ calls[2].op = "movies" /\ calls[2].status = "ok"
    /\ calls[3].op = "movies" /\ calls[3].status = "err"
    /\ ret = Err(3)

====
